---- MODULE Spec2Model ----
(***************************************************************************)
(* Process-backed RPC session layer of the MCP test client:                *)
(*   - the Process Supervisor  (operations/docker/process.ts, deploy.ts,   *)
(*     and stopServer of the server-management module),                    *)
(*   - the Session Cache       (operations/client/cache.ts, connection.ts),*)
(*   - the Framed Transport    (ProcessTransport, operations/client).      *)
(*                                                                         *)
(* Every async function is cut at its await points: one action per         *)
(* synchronous stretch of code.  Calls in flight are the records of        *)
(* `tasks`; child processes, transports and clients are numbered in the    *)
(* order in which the code creates them.                                   *)
(***************************************************************************)
EXTENDS Integers, Sequences, FiniteSets, Bags, TLC

(* ------------------------------ bounds -------------------------------- *)
MaxProcs == 2      \* child processes spawned in one behaviour
MaxClients == 2    \* clients (with their transport) created in one behaviour

Names == {"a", "b"}         \* logical server names
Callers == {"c1", "c2"}     \* callers of the harness, one call in flight each
Pids == 1..MaxProcs
Cids == 1..MaxClients

VARIABLES
    procs,            \* pid -> child process (ChildProcess of node)
    runningServers,   \* name -> pid registered in the live set, 0 = no entry
    connectedClients, \* name -> cid of the cached client, 0 = no entry
    clients,          \* cid -> client + its ProcessTransport
    nextPid,          \* number of the next process spawn() creates
    nextCid,          \* number of the next client createNewClient creates
    tasks,            \* bag of the calls in flight, each suspended at an await
    ev,               \* what the step that led to this state did
    quiet,            \* the call that returned last, with no call begun since
                      \* other than the one now in flight alone
    overlap,          \* two calls have been in flight at the same time
    tx,               \* one ProcessTransport driven directly: calls and
                      \* notifications counted (see SpecTransport)
    bytes,            \* the bytes the process writes to stdout (see SpecData)
    pos,              \* how many of them the 'data' events have delivered
    messageBuffer,    \* ProcessTransport.messageBuffer
    notified          \* the onmessage / onerror notifications, in order

vars == <<procs, runningServers, connectedClients, clients, nextPid, nextCid,
          tasks, ev, quiet, overlap, tx, bytes, pos, messageBuffer, notified>>

sessionVars == <<runningServers, connectedClients, nextPid, nextCid, tasks,
                 quiet, overlap>>
dataVars == <<bytes, pos, messageBuffer, notified>>

(* ------------------------- child processes ---------------------------- *)
\* st: "unborn" (not spawned yet), "running", "exited".
\* killed: node's ChildProcess.killed, set by a kill() that delivered a signal.
\* sigkill: a SIGKILL was delivered (the process cannot outlive it).
\* name, persistent: captured by the exit handler deployServer installs.
NoProc == [st |-> "unborn", killed |-> FALSE, sigkill |-> FALSE,
           name |-> "a", persistent |-> FALSE]

\* ChildProcess.kill(sig): delivers the signal and sets `killed` while the
\* process is alive; returns false and changes nothing once it has exited.
ProcessKill(p, sig) ==
    IF p.st = "running"
    THEN [p EXCEPT !.killed = TRUE, !.sigkill = @ \/ (sig = "SIGKILL")]
    ELSE p

(* ---------------------- clients and transports ------------------------ *)
\* proc: the ServerProcess the transport was constructed with (0 = unused).
\* isConnected, exitSub: ProcessTransport.isConnected, exit listener attached.
\* attached: the client still holds the transport (client.transport defined);
\*   the client drops it when the transport fires onclose.
\* nclose: number of onclose notifications fired so far.
NoClient == [proc |-> 0, isConnected |-> FALSE, exitSub |-> FALSE,
             attached |-> FALSE, nclose |-> 0]

\* The live state the operations read and write, passed as one record so
\* that a handler's sequence of calls composes into one step.
Store == [procs |-> procs, clients |-> clients, cc |-> connectedClients,
          rs |-> runningServers, nextPid |-> nextPid, nextCid |-> nextCid]

\* this.onclose(): the client's handler drops the transport.
FireOnClose(t) == [t EXCEPT !.attached = FALSE, !.nclose = @ + 1]

\* ProcessTransport.start(): rejects when the process was signalled (the
\* handle itself is never absent); else installs the listeners.
StartFails(p) == p.killed

TransportStart(t, p) ==
    IF StartFails(p)
    THEN [t EXCEPT !.isConnected = FALSE]
    ELSE [t EXCEPT !.isConnected = TRUE, !.exitSub = TRUE]

\* send(message) is refused: not connected, or stdin not writable (node
\* destroys the stdin of a child that has exited).
SendRefused(t, p) == ~t.isConnected \/ p.st # "running"

\* close() signalling the process registered under the name at the time
\* of the call instead of the one the transport was constructed with.
TransportCloseRegistered(s, c) ==
    LET t == s.clients[c]
        n == s.procs[t.proc].name
        q == IF s.rs[n] # 0 THEN s.rs[n] ELSE t.proc
        p == s.procs[q]
    IN [s EXCEPT
          !.procs[q] = IF ~p.killed THEN ProcessKill(p, "SIGTERM") ELSE p,
          !.clients[c] = FireOnClose([t EXCEPT !.exitSub = FALSE,
                                               !.isConnected = FALSE])]

\* ProcessTransport.close()
TransportClose(s, c) ==
    LET t == s.clients[c]
        p == s.procs[t.proc]
    IN [s EXCEPT
          !.procs[t.proc] = IF ~p.killed THEN ProcessKill(p, "SIGTERM") ELSE p,
          !.clients[c] = FireOnClose([t EXCEPT !.exitSub = FALSE,
                                               !.isConnected = FALSE])]

\* removeClientFromCache(serverName)
removeClientFromCache(s, n) ==
    IF s.cc[n] # 0
    THEN LET c == s.cc[n]
             s1 == IF s.clients[c].attached THEN TransportClose(s, c) ELSE s
         IN [s1 EXCEPT !.cc[n] = 0]
    ELSE s

\* listServers(input): one entry per key of the live set, each with the
\* status 'running'.
listServers(s) ==
    {[name |-> n, pid |-> s.rs[n], status |-> "running"] :
        n \in {m \in Names : s.rs[m] # 0}}

(* ------------------------------ tasks --------------------------------- *)
\* One call in flight.  pc is the await it is suspended at:
\*   term_wait  terminateProcess waits for the exit event or the escalation
\*              timer (term_stale: the process had exited before, so that
\*              the once('exit') listener can no longer fire),
\*   settle     the settle delay of terminateProcess,
\*   warmup     the warm-up delay of deployServer,
\*   stop_wait  the 200 ms delay of stopServer,
\*   health     verifyConnection, listTools raced against the timeout,
\*   connect    client.connect(transport), after transport.start().
\*   rpc        the request of callTool / listTools (client.callTool,
\*              client.listTools), after getClient returned a client,
\*   next_test  runTests between two test cases (await runTestCase).
\* pid: existingServer / the spawned process; cid: cachedClient / the new
\* client; re: the process that was registered, running and not signalled
\* when the health check of this call failed (0 otherwise).
\* Of a runTests call: phase ("list": inside listTools, "test": inside the
\* loop), tools: the names listTools returned, results: the array of the
\* results so far (the tool tested and whether it passed), cur: the tool
\* of the test case in progress ("none" between two test cases).
\* Of the getClient call in progress: nhc, the health checks it has made,
\* nbuild, the createNewClient calls it has made; vc, the outcome of the
\* health check that has just resolved (handed to the code that follows).
NoVc == [race |-> "none", raises |-> FALSE, healthy |-> FALSE]

Task(op, pc, n) == [op |-> op, pc |-> pc, name |-> n, pid |-> 0, cid |-> 0,
                    persistent |-> FALSE, src |-> "ok", re |-> 0,
                    phase |-> "none", tools |-> << >>, results |-> << >>,
                    cur |-> "none", nhc |-> 0, nbuild |-> 0, vc |-> NoVc]

NoQuiet == [op |-> "none", name |-> "a", cid |-> 0]

\* Of a call that returns: err is the type of the error it raises ("none":
\* it returns a value), ret the kind of value, cause the type of the error
\* that was thrown first inside it, unreg: no process was registered under
\* the name when the call was made; sum and tools: the summary of runTests
\* and the names listTools reported.  Of clearClientCache: cached, the
\* clients the cache held when it was called, and closed, those of them
\* whose transport it called close() on.  Of getClient: evict, the process
\* the transport of the session it evicted was constructed with, when it
\* called close() on it (0 otherwise).
NoSum == [total |-> 0, passed |-> 0, failed |-> 0]

NoEv == [act |-> "none", name |-> "a", pid |-> 0, cid |-> 0, out |-> "none",
         hc |-> "none", old |-> 0, prev |-> NoQuiet, pers |-> FALSE,
         err |-> "none", ret |-> "none", cause |-> "none", unreg |-> FALSE,
         sum |-> NoSum, tools |-> << >>, cached |-> {}, closed |-> {},
         results |-> << >>, nhc |-> 0, nbuild |-> 0, vc |-> NoVc,
         evict |-> 0]

Ev(act, n) == [NoEv EXCEPT !.act = act, !.name = n]

NoTx == [started |-> FALSE, startCalls |-> 0, closeCalls |-> 0, sends |-> 0,
         written |-> 0, errEvents |-> 0, nerror |-> 0, exitFired |-> FALSE]

\* The event of a step of the session layer; the transport driven directly
\* and the byte stream are not part of it.
Emit(e) == ev' = e /\ UNCHANGED <<tx, dataVars>>

One(r) == SetToBag({r})

\* Every caller has at most one call in flight.
CanCall == BagCardinality(tasks) < Cardinality(Callers)

\* A process that was sent SIGKILL exits before any timer of the harness fires.
NoKillPending == \A p \in Pids : ~(procs[p].st = "running" /\ procs[p].sigkill)

\* What no code path reads any more is reset, so that states differing only
\* in garbage coincide:
\*   - of an exited process, `persistent` (read by its exit handler only)
\*     and, once no live-set entry holds it, `killed` (read through
\*     getServerProcess only);
\*   - of a transport that fired onclose and was dropped by its client, the
\*     process it was bound to and its exit subscription, which can no
\*     longer fire or was removed.
Reaped(s, pid) ==
    LET p == s.procs[pid]
    IN IF p.st = "exited"
       THEN [p EXCEPT !.persistent = FALSE, !.sigkill = FALSE,
                      !.killed = @ /\ (\E n \in Names : s.rs[n] = pid)]
       ELSE p

Dropped(t) ==
    IF t.proc # 0 /\ ~t.attached /\ ~t.isConnected
    THEN [t EXCEPT !.proc = 0, !.exitSub = FALSE]
    ELSE t

Commit(s) ==
    /\ procs' = [pid \in Pids |-> Reaped(s, pid)]
    /\ clients' = [c \in Cids |-> Dropped(s.clients[c])]
    /\ connectedClients' = s.cc
    /\ runningServers' = s.rs
    /\ nextPid' = s.nextPid
    /\ nextCid' = s.nextCid

\* History of a step that begins a call and suspends it.
Begun ==
    /\ overlap' = (overlap \/ tasks # EmptyBag)
    /\ quiet' = IF tasks # EmptyBag THEN NoQuiet ELSE quiet

\* History of a step in which a call returns (op, with client cid or 0).
Returned(op, n, cid, begins) ==
    /\ overlap' = (overlap \/ (begins /\ tasks # EmptyBag))
    /\ quiet' = [op |-> op, name |-> n, cid |-> cid]

\* quiet as the call beginning (or going on) in this step sees it.
Seen(begins) == IF begins /\ tasks # EmptyBag THEN NoQuiet ELSE quiet

(* --------------------------- Init ------------------------------------- *)
Init ==
    /\ procs = [p \in Pids |-> NoProc]
    /\ runningServers = [n \in Names |-> 0]
    /\ connectedClients = [n \in Names |-> 0]
    /\ clients = [c \in Cids |-> NoClient]
    /\ nextPid = 1
    /\ nextCid = 1
    /\ tasks = EmptyBag
    /\ ev = NoEv
    /\ quiet = NoQuiet
    /\ overlap = FALSE
    /\ tx = NoTx
    /\ bytes = << >>
    /\ pos = 0
    /\ messageBuffer = << >>
    /\ notified = << >>

(* ------------------------ Process Supervisor --------------------------- *)
\* getServerProcess(name): the registered pid, 0 when it throws
\* ServerNotFoundError.
getServerProcess(s, n) == s.rs[n]

\* TerminateBegin leaving the entry in the live set.
TerminateBeginNoDelete(s, n) ==
    LET pid == getServerProcess(s, n)
    IN [s EXCEPT !.procs[pid] = ProcessKill(@, "SIGTERM")]

\* terminateProcess up to its first await: SIGTERM, delete, then wait for
\* the exit event or the escalation timer.  The name is registered.
TerminateBegin(s, n) ==
    LET pid == getServerProcess(s, n)
    IN [s EXCEPT !.procs[pid] = ProcessKill(@, "SIGTERM"), !.rs[n] = 0]

\* The await terminateProcess suspends at.
TermWaitPc(s, pid) ==
    IF s.procs[pid].st = "running" THEN "term_wait" ELSE "term_stale"

\* deployServer from spawn() to the warm-up await.
SpawnServer(s, n, persistent) ==
    [s EXCEPT !.procs[s.nextPid] = [st |-> "running", killed |-> FALSE,
                                    sigkill |-> FALSE, name |-> n,
                                    persistent |-> persistent],
              !.rs[n] = s.nextPid,
              !.nextPid = @ + 1]

\* deployServer after `await terminateProcess(name)` (or directly when no
\* server was registered): determineStartCommand, spawn, register.
\* rest: the other calls in flight; old: the process it terminated.
DeployContinue(rest, s, n, persistent, src, old, begins) ==
    IF src = "badjson"
    THEN /\ Commit(s)
         /\ tasks' = rest
         /\ Emit([Ev("deploy", n) EXCEPT !.out = "error", !.old = old])
         /\ Returned("deploy", n, 0, begins)
    ELSE /\ s.nextPid <= MaxProcs
         /\ Commit(SpawnServer(s, n, persistent))
         /\ tasks' = rest (+) One([Task("deploy", "warmup", n) EXCEPT
                                     !.pid = s.nextPid])
         /\ Emit([Ev("spawn", n) EXCEPT !.pid = s.nextPid, !.old = old,
                                         !.prev = Seen(begins)])
         /\ IF begins THEN Begun ELSE UNCHANGED <<quiet, overlap>>

\* deployServer(input), up to its first await.
DeployServer(n, persistent, src) ==
    /\ CanCall
    /\ nextPid <= MaxProcs
    /\ IF src = "nopath"
       THEN /\ Emit([Ev("deploy", n) EXCEPT !.out = "error"])
            /\ Returned("deploy", n, 0, TRUE)
            /\ UNCHANGED <<procs, runningServers, connectedClients, clients,
                           nextPid, nextCid, tasks>>
       ELSE LET s1 == removeClientFromCache(Store, n)
                pid == s1.rs[n]
            IN IF pid # 0
               THEN /\ Commit(TerminateBegin(s1, n))
                    /\ tasks' = tasks (+) One([Task("deploy",
                                                    TermWaitPc(s1, pid), n)
                           EXCEPT !.pid = pid, !.persistent = persistent,
                                  !.src = src])
                    /\ Emit([Ev("sigterm", n) EXCEPT !.pid = pid])
                    /\ Begun
               ELSE DeployContinue(tasks, s1, n, persistent, src, 0, TRUE)

\* TerminateProcess without the try/catch: a name that is not registered
\* makes it raise ServerNotFoundError.
TerminateProcessStrict(n, killThrows) ==
    /\ CanCall
    /\ LET pid == getServerProcess(Store, n)
       IN IF pid # 0
          THEN /\ Commit(TerminateBegin(Store, n))
               /\ tasks' = tasks (+) One([Task("terminate",
                                               TermWaitPc(Store, pid), n)
                                            EXCEPT !.pid = pid])
               /\ Emit([Ev("sigterm", n) EXCEPT !.pid = pid])
               /\ Begun
          ELSE /\ tasks' = tasks
               /\ Emit([Ev("terminate", n) EXCEPT !.out = "error",
                                                   !.prev = Seen(TRUE)])
               /\ Returned("terminate", n, 0, TRUE)
               /\ UNCHANGED <<procs, runningServers, connectedClients,
                              clients, nextPid, nextCid>>

\* terminateProcess(name) called on its own, up to its first await.
\* killThrows: process.kill('SIGTERM') throws; the catch block, which also
\* takes the ServerNotFoundError of getServerProcess, waits and returns.
\* (Inside deployServer the call is modelled with a kill that does not throw.)
TerminateProcess(n, killThrows) ==
    /\ CanCall
    /\ LET pid == getServerProcess(Store, n)
       IN IF pid # 0 /\ ~killThrows
          THEN /\ Commit(TerminateBegin(Store, n))
               /\ tasks' = tasks (+) One([Task("terminate",
                                               TermWaitPc(Store, pid), n)
                                            EXCEPT !.pid = pid])
               /\ Emit([Ev("sigterm", n) EXCEPT !.pid = pid])
          ELSE /\ tasks' = tasks (+) One([Task("terminate", "settle", n)
                                            EXCEPT !.src = IF pid # 0
                                                           THEN "threw"
                                                           ELSE "ok"])
               /\ Emit([Ev(IF pid # 0 THEN "term_threw" ELSE "term_notfound",
                           n) EXCEPT !.prev = Seen(TRUE)])
               /\ UNCHANGED <<procs, runningServers, connectedClients,
                              clients, nextPid, nextCid>>
    /\ Begun

\* The exit event reached the once('exit') listener of terminateProcess.
ExitSeen(r) == r.pc = "term_wait" /\ procs[r.pid].st = "exited"

\* The escalation timer of terminateProcess fires (the exit event did not
\* come first): SIGKILL unless `killed` is already set, then resolve.
Escalate(p) == IF ~p.killed THEN ProcessKill(p, "SIGKILL") ELSE p

EscalateTimeout(r) ==
    /\ BagIn(r, tasks)
    /\ r.pc \in {"term_wait", "term_stale"}
    /\ ~ExitSeen(r)
    /\ NoKillPending
    /\ Commit([Store EXCEPT !.procs[r.pid] = Escalate(@)])
    /\ Emit([Ev("escalate", r.name) EXCEPT !.pid = r.pid,
                !.out = IF procs[r.pid].st = "running" THEN "alive" ELSE "dead"])
    /\ tasks' = (tasks (-) One(r)) (+) One([r EXCEPT !.pc = "settle"])
    /\ UNCHANGED <<quiet, overlap>>

\* The settle delay of terminateProcess is over: terminateProcess returns;
\* inside deployServer the deployment goes on.
SettleDone(r) ==
    /\ BagIn(r, tasks)
    /\ r.pc = "settle" \/ ExitSeen(r)
    /\ NoKillPending
    /\ IF r.op = "terminate"
       THEN /\ tasks' = tasks (-) One(r)
            /\ Emit([Ev("terminate", r.name) EXCEPT !.pid = r.pid,
                        !.out = "ok", !.prev = quiet])
            /\ Returned(IF r.src = "threw" THEN "terminate_threw"
                        ELSE "terminate", r.name, 0, FALSE)
            /\ UNCHANGED <<procs, runningServers, connectedClients, clients,
                           nextPid, nextCid>>
       ELSE DeployContinue(tasks (-) One(r), Store, r.name, r.persistent,
                           r.src, r.pid, FALSE)

\* The warm-up delay of deployServer is over: it returns status running.
DeployReturn(r) ==
    /\ BagIn(r, tasks)
    /\ r.pc = "warmup"
    /\ NoKillPending
    /\ tasks' = tasks (-) One(r)
    /\ Emit([Ev("deploy", r.name) EXCEPT !.pid = r.pid, !.out = "ok"])
    /\ Returned("deploy", r.name, 0, FALSE)
    /\ UNCHANGED <<procs, runningServers, connectedClients, clients,
                   nextPid, nextCid>>

\* StopServer without the eviction of the cached client of a registered server.
StopServerNoEvict(n) ==
    /\ CanCall
    /\ IF runningServers[n] = 0
       THEN /\ Commit(removeClientFromCache(Store, n))
            /\ tasks' = tasks
            /\ Emit([Ev("stop", n) EXCEPT !.out = "ok",
                        !.cid = connectedClients[n], !.prev = Seen(TRUE)])
            /\ Returned("stop", n, 0, TRUE)
       ELSE LET pid == getServerProcess(Store, n)
                s1 == [Store EXCEPT !.procs[pid] = ProcessKill(@, "SIGTERM"),
                                    !.rs[n] = 0]
            IN /\ Commit(s1)
               /\ tasks' = tasks (+) One([Task("stop", "stop_wait", n)
                                            EXCEPT !.pid = pid,
                                                   !.cid = connectedClients[n]])
               /\ Emit([Ev("sigterm", n) EXCEPT !.pid = pid])
               /\ Begun

\* StopServer raising for a name that is not registered.
StopServerStrict(n) ==
    /\ CanCall
    /\ IF runningServers[n] = 0
       THEN /\ Commit(removeClientFromCache(Store, n))
            /\ tasks' = tasks
            /\ Emit([Ev("stop", n) EXCEPT !.out = "error",
                        !.cid = connectedClients[n], !.prev = Seen(TRUE)])
            /\ Returned("stop", n, 0, TRUE)
       ELSE LET pid == getServerProcess(Store, n)
                s1 == [Store EXCEPT !.procs[pid] = ProcessKill(@, "SIGTERM"),
                                    !.rs[n] = 0]
            IN /\ Commit(removeClientFromCache(s1, n))
               /\ tasks' = tasks (+) One([Task("stop", "stop_wait", n)
                                            EXCEPT !.pid = pid,
                                                   !.cid = connectedClients[n]])
               /\ Emit([Ev("sigterm", n) EXCEPT !.pid = pid])
               /\ Begun

\* stopServer(input), up to its await (all of it when nothing is registered).
StopServer(n) ==
    /\ CanCall
    /\ IF runningServers[n] = 0
       THEN /\ Commit(removeClientFromCache(Store, n))
            /\ tasks' = tasks
            /\ Emit([Ev("stop", n) EXCEPT !.out = "ok",
                        !.cid = connectedClients[n], !.prev = Seen(TRUE)])
            /\ Returned("stop", n, 0, TRUE)
       ELSE LET pid == getServerProcess(Store, n)
                s1 == [Store EXCEPT !.procs[pid] = ProcessKill(@, "SIGTERM"),
                                    !.rs[n] = 0]
            IN /\ Commit(removeClientFromCache(s1, n))
               /\ tasks' = tasks (+) One([Task("stop", "stop_wait", n)
                                            EXCEPT !.pid = pid,
                                                   !.cid = connectedClients[n]])
               /\ Emit([Ev("sigterm", n) EXCEPT !.pid = pid])
               /\ Begun

\* The 200 ms wait of stopServer is over: it returns status stopped.
StopReturn(r) ==
    /\ BagIn(r, tasks)
    /\ r.pc = "stop_wait"
    /\ NoKillPending
    /\ tasks' = tasks (-) One(r)
    /\ Emit([Ev("stop", r.name) EXCEPT !.pid = r.pid, !.cid = r.cid,
                                         !.out = "ok"])
    /\ Returned("stop", r.name, 0, FALSE)
    /\ UNCHANGED <<procs, runningServers, connectedClients, clients,
                   nextPid, nextCid>>

\* The exit handler a started transport installs on its process.
TransportExitHandler(t) ==
    IF t.exitSub THEN FireOnClose([t EXCEPT !.isConnected = FALSE]) ELSE t

\* DeployExitHandler ignoring the persistence flag.
DeployExitHandlerAlways(rs, p) == [rs EXCEPT ![p.name] = 0]

\* DeployExitHandler emptying the live set.
DeployExitHandlerAllNames(rs, p) ==
    IF ~p.persistent THEN [n \in Names |-> 0] ELSE rs

\* The exit handler deployServer installs on the process it spawned.
DeployExitHandler(rs, p) ==
    IF ~p.persistent THEN [rs EXCEPT ![p.name] = 0] ELSE rs

\* A child process exits (by itself or after a signal); node emits 'exit'
\* and runs the listeners in one turn: deployServer's handler, the exit
\* handlers of the transports, the once-listener of terminateProcess (the
\* tasks in term_wait on this process, see ExitSeen).
ProcessExit(pid) ==
    /\ procs[pid].st = "running"
    /\ Commit([Store EXCEPT
                 !.procs[pid].st = "exited",
                 !.rs = DeployExitHandler(@, procs[pid]),
                 !.clients = [c \in Cids |-> IF clients[c].proc = pid
                                            THEN TransportExitHandler(clients[c])
                                            ELSE clients[c]]])
    /\ Emit([Ev("exit", procs[pid].name) EXCEPT !.pid = pid,
                !.out = IF procs[pid].killed THEN "signalled" ELSE "own",
                !.pers = procs[pid].persistent,
                !.old = runningServers[procs[pid].name]])
    /\ UNCHANGED <<tasks, quiet, overlap>>

(* --------------------------- Session Cache ----------------------------- *)

\* The first request a client writes (transport.send) fails at once: the
\* transport is not connected or the stdin of an exited process is closed.
SendFails(s, c) ==
    \/ ~s.clients[c].attached
    \/ SendRefused(s.clients[c], s.procs[s.clients[c].proc])

\* The server answers a pending request of client c: the client still
\* holds its transport and the process is alive to write the response.
Answered(c) ==
    /\ clients[c].attached
    /\ clients[c].isConnected
    /\ procs[clients[c].proc].st = "running"

(* The catch blocks: what leaves the function when `error` (the type of
   the error thrown inside its try block) is caught. *)
\* createNewClient: every error is rethrown as ToolCallError.
createNewClientCatch(error) == "ToolCallError"

\* callTool with a catch block that rethrows.
callToolRethrow(error) == [err |-> error, ret |-> "none"]

\* callTool: every error becomes the value {result: null, error, duration_ms}.
callToolCatch(error) == [err |-> "none", ret |-> "null_error"]

\* listTools: every error is rethrown as ToolCallError.
listToolsCatch(error) == [err |-> "ToolCallError", ret |-> "none"]

\* runTests: ServerNotFoundError is rethrown, any other error becomes the
\* one-result summary "Test suite setup".
runTestsCatch(error) ==
    IF error = "ServerNotFoundError" THEN [err |-> error, ret |-> "none"]
    ELSE [err |-> "none", ret |-> "setup_failed"]

\* getServerLogs: ServerNotFoundError is rethrown, any other error becomes
\* the value {logs: "", error}.
getServerLogsCatch(error) ==
    IF error = "ServerNotFoundError" THEN [err |-> error, ret |-> "none"]
    ELSE [err |-> "none", ret |-> "logs_error"]

\* results.unshift(result) in the place of results.push(result).
PushFront(results, result) == <<result>> \o results

\* results.push(result)
PushResult(results, result) == Append(results, result)

\* Inside the call t (callTool, listTools or runTests) the acquisition of
\* the client or the request failed with `error`: the call returns or
\* raises, a test case of runTests is recorded as failed.  e: the event so far.
CallFails(rest, t, e, error, begins) ==
    LET unreg == begins /\ runningServers[t.name] = 0
        ret(c) == [e EXCEPT !.act = t.op, !.out = "error", !.err = c.err,
                            !.ret = c.ret, !.unreg = unreg]
    IN IF t.op = "runTests" /\ t.phase = "test"
       THEN \* callTool returned {error}: runTestCase returns passed = false
            /\ tasks' = rest (+) One([t EXCEPT !.pc = "next_test",
                      !.results = PushResult(@, [tool |-> t.cur,
                                                 passed |-> FALSE]),
                      !.cur = "none", !.pid = 0, !.cid = 0, !.re = 0,
                      !.nhc = 0, !.nbuild = 0, !.vc = NoVc])
            /\ Emit([e EXCEPT !.act = "tested", !.out = "failed"])
            /\ IF begins THEN Begun ELSE UNCHANGED <<quiet, overlap>>
       ELSE /\ tasks' = rest
            /\ Emit(CASE t.op = "callTool" -> ret(callToolCatch(error))
                      [] t.op = "listTools" -> ret(listToolsCatch(error))
                      [] OTHER ->
                           [ret(runTestsCatch(listToolsCatch(error).err))
                              EXCEPT !.sum = [total |-> 1, passed |-> 0,
                                              failed |-> 1]])
            /\ Returned(t.op, t.name, 0, begins)

\* getClient returns to its caller: the call t itself when getClient was
\* called directly, else callTool / listTools, which goes on to its request.
\* e: the event of getClient; cid: the client, 0 when it raises.
GetClientReturns(rest, t, e, cid, begins) ==
    LET e1 == [e EXCEPT !.nhc = t.nhc, !.nbuild = t.nbuild, !.vc = t.vc]
    IN IF t.op = "getClient"
       THEN /\ tasks' = rest
            /\ Emit([e1 EXCEPT !.err = IF cid = 0
                                        THEN createNewClientCatch(e.cause)
                                        ELSE "none"])
            /\ Returned("getClient", t.name, cid, begins)
       ELSE IF cid # 0
       THEN /\ tasks' = rest (+) One([t EXCEPT !.pc = "rpc", !.cid = cid,
                                  !.pid = 0, !.re = 0, !.nhc = 0,
                                  !.nbuild = 0, !.vc = NoVc])
            /\ Emit([e1 EXCEPT !.act = "acquired"])
            /\ IF begins THEN Begun ELSE UNCHANGED <<quiet, overlap>>
       ELSE CallFails(rest, t, e1, createNewClientCatch(e.cause), begins)

\* createNewClient(serverName), up to the await inside client.connect.
\* rest: the other calls in flight; t: the call it runs in; hc, re: what the
\* health check of this getClient call did before.
createNewClient(rest, s, t, hc, re, begins) ==
    LET n == t.name
        pid == getServerProcess(s, n)
        c == s.nextCid
        t1 == [t EXCEPT !.nbuild = @ + 1]
        cached == connectedClients[n]
        evict == IF cached # 0 /\ s.cc[n] = 0 /\ clients[cached].attached
                 THEN clients[cached].proc ELSE 0
        fail(cause) ==
            /\ Commit(s)
            /\ GetClientReturns(rest, t1,
                   [Ev("getClient", n) EXCEPT !.out = "error", !.hc = hc,
                       !.pid = re, !.prev = Seen(begins), !.cause = cause,
                       !.evict = evict],
                   0, begins)
    IN IF pid = 0
       THEN fail("ServerNotFoundError")
       ELSE IF StartFails(s.procs[pid])
       THEN fail("Error") \* transport.start() rejects
       ELSE IF s.procs[pid].st # "running"
       THEN fail("Error") \* start() succeeds, the initialize request cannot
                          \* be written, the client closes the transport
       ELSE /\ c <= MaxClients
            /\ Commit([s EXCEPT
                  !.clients[c] = TransportStart([NoClient EXCEPT !.proc = pid,
                                      !.attached = TRUE], s.procs[pid]),
                  !.nextCid = @ + 1])
            /\ tasks' = rest (+) One([t1 EXCEPT !.pc = "connect", !.pid = pid,
                                  !.cid = c, !.re = re, !.vc = NoVc])
            /\ Emit([Ev("connecting", n) EXCEPT !.pid = pid, !.cid = c,
                        !.hc = hc, !.nhc = t1.nhc, !.nbuild = t1.nbuild,
                        !.vc = t1.vc, !.evict = evict])
            /\ IF begins THEN Begun ELSE UNCHANGED <<quiet, overlap>>

\* The process a failed health check is to leave alone: the one registered
\* under n, if it is running and was never signalled.
LiveRegistered(s, n) ==
    LET pid == getServerProcess(s, n)
    IN IF pid # 0 /\ s.procs[pid].st = "running" /\ ~s.procs[pid].killed
       THEN pid ELSE 0

\* getClient after a failed health check: evict, then build a new client.
HealthFailed(rest, s, t, begins) ==
    createNewClient(rest, removeClientFromCache(s, t.name), t, "fail",
                    LiveRegistered(s, t.name), begins)

\* verifyConnection without its try/catch: the timeout rejects the race.
verifyConnectionNoCatch(race) ==
    [race |-> race, raises |-> (race = "timeout"),
     healthy |-> (race = "listed")]

\* verifyConnection(client, serverName); race: what settles Promise.race
\* first.  "listed": listTools resolved (.then(() => true)); "failed":
\* listTools rejected (.catch(() => false)); "timeout": the timer rejected,
\* which the catch block turns into false.
verifyConnection(race) ==
    [race |-> race, raises |-> FALSE, healthy |-> (race = "listed")]

\* getClient after `await verifyConnection(...)` settled.
HealthResolved(rest, t, race, begins) ==
    LET v == verifyConnection(race)
        t1 == [t EXCEPT !.vc = v]
    IN IF v.raises
       THEN \* the catch block of getClient
            createNewClient(rest, removeClientFromCache(Store, t.name), t1,
                            "gone", 0, begins)
       ELSE IF v.healthy
       THEN /\ GetClientReturns(rest, t1,
                   [Ev("getClient", t.name) EXCEPT !.out = "ok",
                       !.cid = t.cid, !.hc = "ok", !.prev = Seen(begins)],
                   t.cid, begins)
            /\ UNCHANGED <<procs, runningServers, connectedClients,
                           clients, nextPid, nextCid>>
       ELSE HealthFailed(rest, Store, t1, begins)

\* getClient(serverName) inside the call t, up to its first await.
Acquire(rest, t, begins) ==
    LET n == t.name
        c == connectedClients[n]
        pid == getServerProcess(Store, n)
    IN IF c = 0
       THEN createNewClient(rest, Store, t, "none", 0, begins)
       ELSE IF pid = 0 \/ procs[pid].killed
       THEN \* the catch block: the server is not available
            createNewClient(rest, removeClientFromCache(Store, n), t,
                            "gone", 0, begins)
       ELSE IF SendFails(Store, c)
       THEN \* listTools rejects at once: verifyConnection is false
            HealthResolved(rest, [t EXCEPT !.nhc = @ + 1, !.cid = c],
                           "failed", begins)
       ELSE /\ tasks' = rest (+) One([t EXCEPT !.pc = "health", !.pid = pid,
                                              !.cid = c, !.nhc = @ + 1])
            /\ Emit([Ev("health", n) EXCEPT !.pid = pid, !.cid = c])
            /\ IF begins THEN Begun ELSE UNCHANGED <<quiet, overlap>>
            /\ UNCHANGED <<procs, runningServers, connectedClients,
                           clients, nextPid, nextCid>>

\* GetClient returning the cached client of a registered, unsignalled
\* process without verifyConnection.
GetClientNoVerify(n) ==
    /\ CanCall
    /\ LET c == connectedClients[n]
           pid == getServerProcess(Store, n)
       IN IF c = 0 \/ pid = 0 \/ procs[pid].killed
          THEN Acquire(tasks, Task("getClient", "start", n), TRUE)
          ELSE /\ tasks' = tasks
               /\ Emit([Ev("getClient", n) EXCEPT !.out = "ok", !.cid = c,
                           !.hc = "ok", !.prev = Seen(TRUE)])
               /\ Returned("getClient", n, c, TRUE)
               /\ UNCHANGED <<procs, runningServers, connectedClients,
                              clients, nextPid, nextCid>>

\* getClient(serverName) called on its own.
GetClient(n) ==
    /\ CanCall
    /\ Acquire(tasks, Task("getClient", "start", n), TRUE)

\* verifyConnection resolves true: listTools was answered before the
\* timeout; getClient returns the cached client it read before the await.
HealthOk(r) ==
    /\ BagIn(r, tasks)
    /\ r.pc = "health"
    /\ Answered(r.cid)
    /\ HealthResolved(tasks (-) One(r), r, "listed", FALSE)

\* verifyConnection resolves false: the timeout fired or listTools failed.
HealthFail(r, race) ==
    /\ BagIn(r, tasks)
    /\ r.pc = "health"
    /\ NoKillPending
    /\ HealthResolved(tasks (-) One(r), r, race, FALSE)

\* ConnectOk without `connectedClients.set(serverName, client)`.
ConnectOkNoCache(r) ==
    /\ BagIn(r, tasks)
    /\ r.pc = "connect"
    /\ Answered(r.cid)
    /\ GetClientReturns(tasks (-) One(r), r,
           [Ev("getClient", r.name) EXCEPT !.out = "ok", !.cid = r.cid,
               !.hc = IF r.re # 0 THEN "rebuilt" ELSE "none",
               !.pid = r.re, !.prev = quiet],
           r.cid, FALSE)
    /\ UNCHANGED <<procs, runningServers, connectedClients, clients,
                   nextPid, nextCid>>

\* client.connect resolves: the server answered the initialize request;
\* createNewClient caches the client and getClient returns it.
ConnectOk(r) ==
    /\ BagIn(r, tasks)
    /\ r.pc = "connect"
    /\ Answered(r.cid)
    /\ connectedClients' = [connectedClients EXCEPT ![r.name] = r.cid]
    /\ GetClientReturns(tasks (-) One(r), r,
           [Ev("getClient", r.name) EXCEPT !.out = "ok", !.cid = r.cid,
               !.hc = IF r.re # 0 THEN "rebuilt" ELSE "none",
               !.pid = r.re, !.prev = quiet],
           r.cid, FALSE)
    /\ UNCHANGED <<procs, runningServers, clients, nextPid, nextCid>>

\* ConnectFail trying createNewClient again instead of throwing.
ConnectFailRetry(r) ==
    /\ BagIn(r, tasks)
    /\ r.pc = "connect"
    /\ NoKillPending
    /\ createNewClient(tasks (-) One(r),
                       IF clients[r.cid].attached
                       THEN TransportClose(Store, r.cid) ELSE Store,
                       r, "none", r.re, FALSE)

\* client.connect rejects: the initialize request failed (error response,
\* request timeout, or the transport closed under it); the client closes
\* the transport it still holds and createNewClient throws ToolCallError.
ConnectFail(r) ==
    /\ BagIn(r, tasks)
    /\ r.pc = "connect"
    /\ NoKillPending
    /\ Commit(IF clients[r.cid].attached THEN TransportClose(Store, r.cid)
              ELSE Store)
    /\ GetClientReturns(tasks (-) One(r), r,
           [Ev("getClient", r.name) EXCEPT !.out = "error", !.cid = r.cid,
               !.hc = IF r.re # 0 THEN "rebuilt" ELSE "none",
               !.pid = r.re, !.prev = quiet, !.cause = "Error"],
           0, FALSE)

(* ----------------- the operations on a deployed server ------------------ *)
MaxTools == 2      \* entries of the tool list a server answers with

Tools == {"t1", "t2"}       \* tool names

\* The lists of names a listTools request can be answered with; a server may
\* name a tool twice.
ToolLists == UNION {[1..k -> Tools] : k \in 0..MaxTools}

\* The names that occur in a list.
Distinct(tools) == {tools[i] : i \in DOMAIN tools}

\* callTool(input), up to the first await inside getClient.
CallTool(n) ==
    /\ CanCall
    /\ Acquire(tasks, Task("callTool", "start", n), TRUE)

\* listTools(serverName), up to the first await inside getClient.
ListTools(n) ==
    /\ CanCall
    /\ Acquire(tasks, Task("listTools", "start", n), TRUE)

\* runTests(input), up to the first await inside listTools: the check that
\* the server exists, then listTools.
RunTests(n) ==
    /\ CanCall
    /\ IF getServerProcess(Store, n) = 0
       THEN /\ tasks' = tasks
            /\ Emit([Ev("runTests", n) EXCEPT !.out = "error",
                        !.err = runTestsCatch("ServerNotFoundError").err,
                        !.ret = runTestsCatch("ServerNotFoundError").ret,
                        !.cause = "ServerNotFoundError", !.unreg = TRUE,
                        !.prev = Seen(TRUE)])
            /\ Returned("runTests", n, 0, TRUE)
            /\ UNCHANGED <<procs, runningServers, connectedClients,
                           clients, nextPid, nextCid>>
       ELSE Acquire(tasks, [Task("runTests", "start", n) EXCEPT
                               !.phase = "list"], TRUE)

\* getServerLogs(input); file: what the log file of the server is when it is
\* read ("missing", "ok", or "unreadable": the read stream fails).  The read
\* touches nothing of the supervisor, the call is one step.
GetServerLogs(n, file) ==
    /\ CanCall
    /\ LET error == IF getServerProcess(Store, n) = 0
                    THEN "ServerNotFoundError"
                    ELSE IF file = "unreadable" THEN "Error" ELSE "none"
           c == IF error = "none" THEN [err |-> "none", ret |-> "logs"]
                ELSE getServerLogsCatch(error)
       IN /\ Emit([Ev("getServerLogs", n) EXCEPT
                      !.out = IF error = "none" THEN "ok" ELSE "error",
                      !.err = c.err, !.ret = c.ret, !.cause = error,
                      !.unreg = (runningServers[n] = 0),
                      !.prev = Seen(TRUE)])
          /\ Returned("getServerLogs", n, 0, TRUE)
    /\ UNCHANGED <<procs, runningServers, connectedClients, clients,
                   nextPid, nextCid, tasks>>

\* The request of the call r (tools/call, tools/list) is answered; tools:
\* the names in the answer to tools/list.
RpcOk(r, tools) ==
    /\ BagIn(r, tasks)
    /\ r.pc = "rpc"
    /\ Answered(r.cid)
    /\ r.op = "callTool" \/ r.phase = "test" => tools = << >>
    /\ IF r.op = "runTests"
       THEN /\ tasks' = (tasks (-) One(r)) (+)
                   One(IF r.phase = "list"
                       THEN [r EXCEPT !.pc = "next_test", !.phase = "test",
                                      !.tools = tools, !.cid = 0]
                       ELSE [r EXCEPT !.pc = "next_test", !.cid = 0,
                               !.results = PushResult(@, [tool |-> r.cur,
                                                          passed |-> TRUE]),
                               !.cur = "none"])
            /\ Emit(IF r.phase = "list"
                    THEN [Ev("listed", r.name) EXCEPT !.tools = tools,
                                                      !.cid = r.cid]
                    ELSE [Ev("tested", r.name) EXCEPT !.out = "passed",
                                                      !.cid = r.cid])
            /\ UNCHANGED <<quiet, overlap>>
       ELSE /\ tasks' = tasks (-) One(r)
            /\ Emit([Ev(r.op, r.name) EXCEPT !.out = "ok", !.cid = r.cid,
                        !.ret = IF r.op = "callTool" THEN "result"
                                ELSE "names",
                        !.tools = tools, !.prev = quiet])
            /\ Returned(r.op, r.name, 0, FALSE)
    /\ UNCHANGED <<procs, runningServers, connectedClients, clients,
                   nextPid, nextCid>>

\* The request of the call r rejects: an error response, the request
\* timeout, or the transport closed under it.
RpcFail(r) ==
    /\ BagIn(r, tasks)
    /\ r.pc = "rpc"
    /\ NoKillPending
    /\ CallFails(tasks (-) One(r), r,
                 [Ev(r.op, r.name) EXCEPT !.cid = r.cid, !.cause = "Error",
                                          !.prev = quiet],
                 "Error", FALSE)
    /\ UNCHANGED <<procs, runningServers, connectedClients, clients,
                   nextPid, nextCid>>

\* A summary whose total counts the names, not the results.
SummaryOfNames(results, tools) ==
    LET passed == Cardinality({i \in DOMAIN results : results[i].passed})
    IN [total |-> Cardinality(Distinct(tools)), passed |-> passed,
        failed |-> Len(results) - passed]

\* The summary runTests computes from the results (tools: the names listed).
Summary(results, tools) ==
    LET passed == Cardinality({i \in DOMAIN results : results[i].passed})
        total == Len(results)
    IN [total |-> total, passed |-> passed, failed |-> total - passed]

\* runTests at the head of its loop: the next test case calls callTool, or,
\* the tests being through, the summary is returned.
RunNextTest(r) ==
    /\ BagIn(r, tasks)
    /\ r.pc = "next_test"
    /\ IF Len(r.results) = Len(r.tools)
       THEN /\ tasks' = tasks (-) One(r)
            /\ Emit([Ev("runTests", r.name) EXCEPT !.out = "ok",
                        !.ret = "summary",
                        !.sum = Summary(r.results, r.tools),
                        !.tools = r.tools, !.results = r.results,
                        !.prev = quiet])
            /\ Returned("runTests", r.name, 0, FALSE)
            /\ UNCHANGED <<procs, runningServers, connectedClients,
                           clients, nextPid, nextCid>>
       ELSE Acquire(tasks (-) One(r),
                    [r EXCEPT !.pc = "start",
                              !.cur = r.tools[Len(r.results) + 1]],
                    FALSE)

\* The loop of clearClientCache: removeClientFromCache for every name of ns.
RECURSIVE RemoveAll(_, _)
RemoveAll(s, ns) ==
    IF ns = {} THEN s
    ELSE LET n == CHOOSE m \in ns : TRUE
         IN RemoveAll(removeClientFromCache(s, n), ns \ {n})

\* clearClientCache evicting without closing the transports.
clearClientCacheNoClose(s) == [s EXCEPT !.cc = [n \in Names |-> 0]]

\* clearClientCache(): every key of the cache is removed through
\* removeClientFromCache; what were left would be cleared by force.
clearClientCache(s) ==
    LET serverNames == {n \in Names : s.cc[n] # 0}
        s1 == RemoveAll(s, serverNames)
    IN IF \E n \in Names : s1.cc[n] # 0
       THEN [s1 EXCEPT !.cc = [n \in Names |-> 0]]
       ELSE s1

\* clearClientCache() called (mcp_test_clear_connections); it has no await.
ClearClientCache ==
    /\ Commit(clearClientCache(Store))
    /\ tasks' = tasks
    /\ Emit([Ev("clear", "a") EXCEPT
                !.cached = {connectedClients[n] : n \in Names} \ {0},
                !.closed = {c \in Cids : /\ \E n \in Names :
                                              connectedClients[n] = c
                                         /\ clients[c].attached},
                !.prev = Seen(TRUE)])
    /\ Returned("clear", "a", 0, TRUE)

TaskOf == BagToSet(tasks)

NextFor(NS) ==
    \/ \E n \in NS, pers \in BOOLEAN, src \in {"ok", "nopath", "badjson"} :
          DeployServer(n, pers, src)
    \/ \E n \in NS, killThrows \in BOOLEAN : TerminateProcess(n, killThrows)
    \/ \E r \in TaskOf : EscalateTimeout(r)
    \/ \E r \in TaskOf : SettleDone(r)
    \/ \E r \in TaskOf : DeployReturn(r)
    \/ \E n \in NS : StopServer(n)
    \/ \E r \in TaskOf : StopReturn(r)
    \/ \E p \in Pids : ProcessExit(p)
    \/ \E n \in NS : GetClient(n)
    \/ \E r \in TaskOf : HealthOk(r)
    \/ \E r \in TaskOf, race \in {"failed", "timeout"} : HealthFail(r, race)
    \/ \E r \in TaskOf : ConnectOk(r)
    \/ \E r \in TaskOf : ConnectFail(r)

Next == NextFor({"a"})

Spec == Init /\ [][Next]_vars

(* ----------- terminateProcess with the timers of node being fair -------- *)
\* One terminateProcess call at a time, next to deployments and exits.
TerminateInFlight == \E r \in TaskOf : r.op = "terminate"

NextTerminate ==
    \/ \E pers \in BOOLEAN, src \in {"ok", "nopath", "badjson"} :
          DeployServer("a", pers, src)
    \/ \E killThrows \in BOOLEAN :
          ~TerminateInFlight /\ TerminateProcess("a", killThrows)
    \/ \E r \in TaskOf : EscalateTimeout(r)
    \/ \E r \in TaskOf : SettleDone(r)
    \/ \E r \in TaskOf : DeployReturn(r)
    \/ \E p \in Pids : ProcessExit(p)

\* A timer that was set fires: the escalation timer and the settle delay of
\* a terminateProcess call are not postponed for ever.
SpecTerminate ==
    /\ Init
    /\ [][NextTerminate]_vars
    /\ WF_vars(\E r \in TaskOf : r.op = "terminate" /\ EscalateTimeout(r))
    /\ WF_vars(\E r \in TaskOf : r.op = "terminate" /\ SettleDone(r))

(* --------- the operations, one call of the harness at a time ----------- *)
\* A call is made when the one before has returned; the events of the
\* processes and the timers fall anywhere in between.
NextOps ==
    \/ \E pers \in BOOLEAN, src \in {"ok", "nopath", "badjson"} :
          tasks = EmptyBag /\ DeployServer("a", pers, src)
    \/ \E r \in TaskOf : EscalateTimeout(r)
    \/ \E r \in TaskOf : SettleDone(r)
    \/ \E r \in TaskOf : DeployReturn(r)
    \/ tasks = EmptyBag /\ StopServer("a")
    \/ \E r \in TaskOf : StopReturn(r)
    \/ \E p \in Pids : ProcessExit(p)
    \/ tasks = EmptyBag /\ CallTool("a")
    \/ tasks = EmptyBag /\ ListTools("a")
    \/ tasks = EmptyBag /\ RunTests("a")
    \/ \E file \in {"missing", "ok", "unreadable"} :
          tasks = EmptyBag /\ GetServerLogs("a", file)
    \/ \E r \in TaskOf : HealthOk(r)
    \/ \E r \in TaskOf, race \in {"failed", "timeout"} : HealthFail(r, race)
    \/ \E r \in TaskOf : ConnectOk(r)
    \/ \E r \in TaskOf : ConnectFail(r)
    \/ \E r \in TaskOf, tools \in ToolLists : RpcOk(r, tools)
    \/ \E r \in TaskOf : RpcFail(r)
    \/ \E r \in TaskOf : RunNextTest(r)

SpecOps == Init /\ [][NextOps]_vars

(* ------------- two server names and clearClientCache ------------------- *)
\* The operations the request handler dispatches on both names, one call
\* at a time, the deployments finding a valid package (terminateProcess
\* runs inside deployServer); the events of the processes and the timers
\* fall anywhere in between, and clearClientCache comes at any moment.
NextNames ==
    \/ \E n \in Names, pers \in BOOLEAN :
          tasks = EmptyBag /\ DeployServer(n, pers, "ok")
    \/ \E r \in TaskOf : EscalateTimeout(r)
    \/ \E r \in TaskOf : SettleDone(r)
    \/ \E r \in TaskOf : DeployReturn(r)
    \/ \E n \in Names : tasks = EmptyBag /\ StopServer(n)
    \/ \E r \in TaskOf : StopReturn(r)
    \/ \E p \in Pids : ProcessExit(p)
    \/ \E n \in Names : tasks = EmptyBag /\ GetClient(n)
    \/ \E r \in TaskOf : HealthOk(r)
    \/ \E r \in TaskOf, race \in {"failed", "timeout"} : HealthFail(r, race)
    \/ \E r \in TaskOf : ConnectOk(r)
    \/ \E r \in TaskOf : ConnectFail(r)
    \/ ClearClientCache

SpecNames == Init /\ [][NextNames]_vars

(* ------------- one ProcessTransport, driven through its API ------------ *)
MaxCalls == 2      \* close() calls, send() calls, 'error' events, each

\* Frame of a step of the transport: the session layer does not move.
CommitTransport(s) ==
    /\ procs' = s.procs
    /\ clients' = s.clients
    /\ UNCHANGED <<sessionVars, dataVars>>

\* Process 1, spawned by deployServer, and transport 1 constructed on it
\* (new ProcessTransport(server)) with its notification slots set.
InitTransport ==
    /\ procs = [p \in Pids |-> IF p = 1 THEN [NoProc EXCEPT !.st = "running"]
                               ELSE NoProc]
    /\ clients = [c \in Cids |-> IF c = 1 THEN [NoClient EXCEPT !.proc = 1,
                                                  !.attached = TRUE]
                                 ELSE NoClient]
    /\ runningServers = [n \in Names |-> IF n = "a" THEN 1 ELSE 0]
    /\ connectedClients = [n \in Names |-> 0]
    /\ nextPid = 2
    /\ nextCid = 2
    /\ tasks = EmptyBag
    /\ ev = NoEv
    /\ quiet = NoQuiet
    /\ overlap = FALSE
    /\ tx = NoTx
    /\ bytes = << >>
    /\ pos = 0
    /\ messageBuffer = << >>
    /\ notified = << >>

\* start()
TStart ==
    /\ tx.startCalls = 0
    /\ CommitTransport([Store EXCEPT
                          !.clients[1] = TransportStart(@, procs[1])])
    /\ tx' = [tx EXCEPT !.startCalls = 1, !.started = ~StartFails(procs[1])]
    /\ ev' = [Ev("t_start", "a") EXCEPT
                !.out = IF StartFails(procs[1]) THEN "rejected" ELSE "resolved"]

\* close()
TClose ==
    /\ tx.closeCalls < MaxCalls
    /\ CommitTransport(TransportClose(Store, 1))
    /\ tx' = [tx EXCEPT !.closeCalls = @ + 1]
    /\ ev' = [Ev("t_close", "a") EXCEPT !.out = "resolved"]

\* The process exits: the exit handler runs if it is (still) subscribed.
TExit ==
    /\ procs[1].st = "running"
    /\ CommitTransport([Store EXCEPT
                          !.procs[1].st = "exited",
                          !.clients[1] = TransportExitHandler(@)])
    /\ tx' = [tx EXCEPT !.exitFired = clients[1].exitSub]
    /\ ev' = Ev("t_exit", "a")

\* The 'error' listener start() installed on the process (never removed).
TransportErrorHandler(t) == [t EXCEPT !.isConnected = FALSE]

\* The process emits 'error'.
TError ==
    /\ tx.started
    /\ tx.errEvents < MaxCalls
    /\ CommitTransport([Store EXCEPT
                          !.clients[1] = TransportErrorHandler(@)])
    /\ tx' = [tx EXCEPT !.errEvents = @ + 1, !.nerror = @ + 1]
    /\ ev' = Ev("t_error", "a")

\* TSend with a refused send only rejecting, without the onerror call.
TSendSilent(serialisable) ==
    /\ tx.sends < MaxCalls
    /\ IF SendRefused(clients[1], procs[1])
       THEN /\ tx' = [tx EXCEPT !.sends = @ + 1]
            /\ ev' = [Ev("t_send", "a") EXCEPT !.out = "rejected"]
            /\ CommitTransport(Store)
       ELSE IF serialisable
       THEN /\ tx' = [tx EXCEPT !.sends = @ + 1, !.written = @ + 1]
            /\ ev' = [Ev("t_send", "a") EXCEPT !.out = "resolved"]
            /\ CommitTransport(Store)
       ELSE /\ tx' = [tx EXCEPT !.sends = @ + 1, !.nerror = @ + 1]
            /\ ev' = [Ev("t_send", "a") EXCEPT !.out = "rejected"]
            /\ CommitTransport([Store EXCEPT
                                  !.clients[1].isConnected = FALSE])

\* send(message); serialisable: JSON.stringify(message) does not throw.
TSend(serialisable) ==
    /\ tx.sends < MaxCalls
    /\ IF SendRefused(clients[1], procs[1])
       THEN /\ tx' = [tx EXCEPT !.sends = @ + 1, !.nerror = @ + 1]
            /\ ev' = [Ev("t_send", "a") EXCEPT !.out = "rejected"]
            /\ CommitTransport(Store)
       ELSE IF serialisable
       THEN /\ tx' = [tx EXCEPT !.sends = @ + 1, !.written = @ + 1]
            /\ ev' = [Ev("t_send", "a") EXCEPT !.out = "resolved"]
            /\ CommitTransport(Store)
       ELSE /\ tx' = [tx EXCEPT !.sends = @ + 1, !.nerror = @ + 1]
            /\ ev' = [Ev("t_send", "a") EXCEPT !.out = "rejected"]
            /\ CommitTransport([Store EXCEPT
                                  !.clients[1].isConnected = FALSE])

NextTransport ==
    \/ TStart
    \/ TClose
    \/ TExit
    \/ TError
    \/ \E serialisable \in BOOLEAN : TSend(serialisable)

SpecTransport == InitTransport /\ [][NextTransport]_vars

(* ------------------- the stdout stream and handleData ------------------ *)
MaxStream == 5     \* bytes the process writes in one behaviour

\* The bytes of the model's alphabet: the double quote, a space, the line
\* feed, and the two bytes C3 A9 of the UTF-8 encoding of one character.
Bytes == {"quote", "SP", "LF", "C3", "A9"}

Streams == UNION {[1..n -> Bytes] : n \in 1..MaxStream}

\* data.toString(): the UTF-8 decoding of one chunk on its own.  C3 A9 is
\* one character; a C3 without its A9, and an A9 without its C3, decode
\* to the replacement character U+FFFD.
RECURSIVE Decode(_)
Decode(b) ==
    IF b = << >> THEN << >>
    ELSE IF Head(b) = "C3"
         THEN IF Len(b) >= 2 /\ b[2] = "A9"
              THEN <<"e_acute">> \o Decode(SubSeq(b, 3, Len(b)))
              ELSE <<"FFFD">> \o Decode(Tail(b))
         ELSE IF Head(b) = "A9"
              THEN <<"FFFD">> \o Decode(Tail(b))
              ELSE <<Head(b)>> \o Decode(Tail(b))

\* String.prototype.trim()
RECURSIVE TrimLeft(_)
TrimLeft(str) ==
    IF str # << >> /\ Head(str) = "SP" THEN TrimLeft(Tail(str)) ELSE str

RECURSIVE TrimRight(_)
TrimRight(str) ==
    IF str # << >> /\ str[Len(str)] = "SP"
    THEN TrimRight(SubSeq(str, 1, Len(str) - 1)) ELSE str

Trim(str) == TrimRight(TrimLeft(str))

\* JSON.parse(messageStr) over this alphabet: the only JSON texts are
\* string literals (a quote, characters other than the quote, a quote)
\* with optional white space around; the value is the string's content.
\* Anything else is a SyntaxError.
IsJson(str) ==
    LET t == Trim(str)
    IN /\ Len(t) >= 2
       /\ t[1] = "quote"
       /\ t[Len(t)] = "quote"
       /\ \A i \in 2..(Len(t) - 1) : t[i] # "quote"

JsonParse(str) == LET t == Trim(str) IN SubSeq(t, 2, Len(t) - 1)

\* messageBuffer.indexOf('\n'), 0 when there is none (1-based otherwise).
IndexOfLF(buf) ==
    IF \E i \in 1..Len(buf) : buf[i] = "LF"
    THEN CHOOSE i \in 1..Len(buf) :
            buf[i] = "LF" /\ \A j \in 1..(i - 1) : buf[j] # "LF"
    ELSE 0

\* The loop of handleData leaving the loop at the first line that fails to
\* parse.
RECURSIVE ProcessLinesStopOnError(_, _)
ProcessLinesStopOnError(buf, notes) ==
    LET messageEndIndex == IndexOfLF(buf)
        messageStr == SubSeq(buf, 1, messageEndIndex - 1)
        rest == SubSeq(buf, messageEndIndex + 1, Len(buf))
    IN IF messageEndIndex = 0
       THEN [messageBuffer |-> buf, notified |-> notes]
       ELSE IF Trim(messageStr) = << >>
       THEN ProcessLinesStopOnError(rest, notes)
       ELSE IF IsJson(messageStr)
       THEN ProcessLinesStopOnError(rest, Append(notes,
                [kind |-> "message", value |-> JsonParse(messageStr)]))
       ELSE [messageBuffer |-> rest,
             notified |-> Append(notes, [kind |-> "error", value |-> << >>])]

\* The while loop of handleData on the buffer that already holds the new
\* data: the buffer left over and the notifications fired, in order.
RECURSIVE ProcessLines(_, _)
ProcessLines(buf, notes) ==
    LET messageEndIndex == IndexOfLF(buf)
        messageStr == SubSeq(buf, 1, messageEndIndex - 1)
        rest == SubSeq(buf, messageEndIndex + 1, Len(buf))
    IN IF messageEndIndex = 0
       THEN [messageBuffer |-> buf, notified |-> notes]
       ELSE IF Trim(messageStr) = << >>
       THEN ProcessLines(rest, notes)
       ELSE IF IsJson(messageStr)
       THEN ProcessLines(rest, Append(notes,
                [kind |-> "message", value |-> JsonParse(messageStr)]))
       ELSE ProcessLines(rest, Append(notes,
                [kind |-> "error", value |-> << >>]))

\* handleData(data)
handleData(buf, data) == ProcessLines(buf \o data, << >>)

\* Process 1 is running and transport 1 was started on it: its stdout
\* 'data' listener is installed and the transport is connected.
InitData ==
    /\ procs = [p \in Pids |-> IF p = 1 THEN [NoProc EXCEPT !.st = "running"]
                               ELSE NoProc]
    /\ clients = [c \in Cids |->
                    IF c = 1
                    THEN TransportStart([NoClient EXCEPT !.proc = 1,
                                            !.attached = TRUE], procs[1])
                    ELSE NoClient]
    /\ runningServers = [n \in Names |-> IF n = "a" THEN 1 ELSE 0]
    /\ connectedClients = [n \in Names |-> 0]
    /\ nextPid = 2
    /\ nextCid = 2
    /\ tasks = EmptyBag
    /\ ev = NoEv
    /\ quiet = NoQuiet
    /\ overlap = FALSE
    /\ tx = NoTx
    /\ bytes \in Streams
    /\ pos = 0
    /\ messageBuffer = << >>
    /\ notified = << >>

\* The stdout 'data' listener of start(): the next k bytes arrive as one
\* chunk, are decoded and handed to handleData.
OnData(k) ==
    /\ pos + k <= Len(bytes)
    /\ LET data == Decode(SubSeq(bytes, pos + 1, pos + k))
           r == handleData(messageBuffer, data)
       IN /\ messageBuffer' = r.messageBuffer
          /\ notified' = notified \o r.notified
    /\ pos' = pos + k
    /\ ev' = Ev("data", "a")
    /\ UNCHANGED <<procs, clients, sessionVars, tx, bytes>>

NextData == \E k \in 1..MaxStream : OnData(k)

SpecData == InitData /\ [][NextData]_vars

\* The started transport with its process writing, close() being called
\* and the process exiting in any order: the stdout 'data' listener of
\* start() stays installed throughout.
NextStream ==
    \/ \E k \in 1..MaxStream : OnData(k)
    \/ TClose
    \/ TExit

SpecStream == InitData /\ [][NextStream]_vars

(* ------------------------------ claims --------------------------------- *)
RunningFor(n) == {p \in Pids : procs[p].st = "running" /\ procs[p].name = n}

\* C1: at most one child process spawned for a logical name is running at
\* any time, under every interleaving of deployServer, stopServer,
\* terminateProcess and process exits.
C1_OneRunningPerName == \A n \in Names : Cardinality(RunningFor(n)) <= 1

\* C2: when deployServer replaces a registered process, that process has
\* exited before the new process is spawned.
C2_ExitBeforeRespawn ==
    ev.act = "spawn" /\ ev.old # 0 => procs[ev.old].st = "exited"

\* C3: when the escalation timer of terminateProcess fires and the process
\* has not exited, SIGKILL is sent to it.
C3_ForcefulKill ==
    ev.act = "escalate" /\ ev.out = "alive" => procs[ev.pid].sigkill

\* C4: a failed health check in getClient sends no signal to the Managed
\* Process, which stays running and registered.
C4_HealthFailSparesProcess ==
    ev.hc = "fail" /\ ev.pid # 0 =>
        /\ procs[ev.pid].st = "running"
        /\ ~procs[ev.pid].killed
        /\ runningServers[ev.name] = ev.pid

\* C5: a getClient whose health check failed while the process was
\* registered and running does not fail: it returns a fresh session that
\* is cached and bound to the registered process.
C5_RebuildAfterHealthFail ==
    /\ ev.act = "getClient"
    /\ ev.hc \in {"fail", "rebuilt"}
    /\ ev.pid # 0
    /\ procs[ev.pid].st = "running"
    /\ runningServers[ev.name] = ev.pid
    => /\ ev.out = "ok"
       /\ connectedClients[ev.name] = ev.cid
       /\ clients[ev.cid].proc = ev.pid

ConnectedTo(p) == {c \in Cids : clients[c].proc = p /\ clients[c].isConnected}

\* C9: of two getClient calls in immediate succession, the second, if
\* nothing fails in it, returns the client the first returned; and no
\* process ever has more than one connected transport (calls not overlapping).
C9_CacheHit ==
    ~overlap =>
      /\ ev.act = "getClient" /\ ev.out = "ok" /\ ev.hc \in {"none", "ok"}
           /\ ev.prev.op = "getClient" /\ ev.prev.name = ev.name
           /\ ev.prev.cid # 0
         => ev.cid = ev.prev.cid
      /\ \A p \in Pids : Cardinality(ConnectedTo(p)) <= 1

C9_Witness ==
    /\ ~overlap
    /\ ev.act = "getClient" /\ ev.out = "ok" /\ ev.hc = "ok"
    /\ ev.prev.op = "getClient" /\ ev.prev.name = ev.name
    /\ ev.prev.cid = ev.cid
    /\ connectedClients[ev.name] = ev.cid

\* C10: the call that follows a returned stopServer or terminateProcess
\* sees nothing of the prior instance: a deployServer spawns only when no
\* earlier process of the name is running, a getClient returns no session
\* taken from the cache.
C10_NoResidue ==
    ~overlap /\ ev.prev.op \in {"stop", "terminate"} /\ ev.prev.name = ev.name =>
      /\ ev.act = "spawn" => RunningFor(ev.name) = {ev.pid}
      /\ ev.act = "getClient" /\ ev.out = "ok" => ev.hc # "ok"

\* The operations that require the server to exist.
NamedOps == {"callTool", "listTools", "runTests", "getServerLogs"}

\* C11: callTool, listTools, runTests and getServerLogs, called with a name
\* under which no process is registered, raise ServerNotFoundError itself to
\* the caller (not a value, not another error type).
C11_NotFoundUnchanged ==
    ev.act \in NamedOps /\ ev.unreg => ev.err = "ServerNotFoundError"

\* C12: callTool never raises: a failure of the session acquisition or of
\* the tool call is returned as {result: null, error, duration_ms}, a
\* successful call as {result, duration_ms} without error.
C12_CallToolNeverRaises ==
    ev.act = "callTool" =>
        /\ ev.err = "none"
        /\ ev.ret \in {"result", "null_error"}
        /\ ev.ret = "result" <=> ev.out = "ok"
        /\ ev.ret = "null_error" <=> ev.cause # "none"

\* A tool call failed after the session was acquired, and callTool returned
\* the failure as a value.
C12_Witness ==
    /\ ev.act = "callTool"
    /\ ev.out = "error"
    /\ ev.ret = "null_error"
    /\ ev.err = "none"
    /\ ev.cause = "Error"
    /\ ev.cid # 0
    /\ connectedClients[ev.name] = ev.cid

\* C19 as stated: the summary runTests returns has total = passed + failed,
\* and total is the number of distinct tools listTools reported in the run.
C19_TotalIsDistinctTools ==
    ev.act = "runTests" /\ ev.err = "none" =>
        /\ ev.sum.total = ev.sum.passed + ev.sum.failed
        /\ ev.sum.total = Cardinality(Distinct(ev.tools))

\* C19, amended: the summary runTests returns has total = passed + failed;
\* when listTools succeeded, total is the number of entries of the list it
\* reported (a name listed twice is tested twice); when the setup failed
\* with another error than ServerNotFoundError, no tool was reported and the
\* summary is total 1, passed 0, failed 1.
C19_TotalIsTestsRun ==
    ev.act = "runTests" /\ ev.err = "none" =>
        /\ ev.sum.total = ev.sum.passed + ev.sum.failed
        /\ ev.sum.passed \in 0..ev.sum.total
        /\ IF ev.ret = "summary"
           THEN ev.sum.total = Len(ev.tools)
           ELSE /\ ev.ret = "setup_failed"
                /\ ev.tools = << >>
                /\ ev.sum = [total |-> 1, passed |-> 0, failed |-> 1]

\* runTests returned the summary of a run in which the server listed one
\* tool twice; one test passed, the other failed.
C19_Witness ==
    /\ ev.act = "runTests"
    /\ ev.ret = "summary"
    /\ ev.tools = <<"t1", "t1">>
    /\ ev.sum = [total |-> 2, passed |-> 1, failed |-> 1]

\* C13: when stopServer returns (no other call overlapping it), the name is
\* in neither the live set nor the session cache, the transport of the
\* session that was cached is closed, and the process that was registered
\* has been signalled unless it had exited already.
C13_StopTearsDownBoth ==
    ~overlap /\ ev.act = "stop" /\ ev.out = "ok" =>
        /\ runningServers[ev.name] = 0
        /\ connectedClients[ev.name] = 0
        /\ ev.cid # 0 => /\ ~clients[ev.cid].isConnected
                         /\ ~clients[ev.cid].attached
        /\ ev.pid # 0 /\ procs[ev.pid].st = "running" => procs[ev.pid].killed

C13_Witness ==
    /\ ~overlap /\ ev.act = "stop" /\ ev.out = "ok"
    /\ ev.cid # 0 /\ ev.pid # 0
    /\ procs[ev.pid].st = "running" /\ procs[ev.pid].killed
    /\ clients[ev.cid].nclose = 1

\* The process the transport of client c is bound to is running.
BoundToRunning(c) ==
    /\ clients[c].proc # 0
    /\ procs[clients[c].proc].st = "running"

\* The step is a call of stopServer(n): it returns at once or suspends.
StopCallStep(n) ==
    /\ ev'.name = n
    /\ \/ ev'.act = "stop" /\ tasks' = tasks
       \/ \E r \in BagToSet(tasks') :
             r.op = "stop" /\ CopiesIn(r, tasks') > CopiesIn(r, tasks)

\* C14: stopServer for a name that is not registered returns status stopped
\* without raising and leaves the live set alone; and a stopServer that
\* follows a returned stopServer of the same name, with no call in between
\* or overlapping, returns stopped and changes neither the live set, the
\* cache, a process nor a transport.
C14_StopIdempotent ==
    [][ \A n \in Names : StopCallStep(n) =>
          /\ runningServers[n] = 0
                => /\ ev'.act = "stop" /\ ev'.out = "ok"
                   /\ runningServers' = runningServers
                   /\ connectedClients'[n] = 0
          /\ ~overlap /\ tasks = EmptyBag
                /\ quiet.op = "stop" /\ quiet.name = n
                => /\ ev'.act = "stop" /\ ev'.out = "ok"
                   /\ UNCHANGED <<procs, runningServers, connectedClients,
                                  clients>> ]_vars

\* The second of two stopServer calls in a row has returned; the first had
\* stopped a registered server with a cached session.
C14_Witness ==
    /\ ~overlap /\ ev.act = "stop" /\ ev.out = "ok" /\ ev.pid = 0
    /\ ev.prev.op = "stop" /\ ev.prev.name = ev.name
    /\ \E p \in Pids : procs[p].st = "running" /\ procs[p].killed
    /\ \E c \in Cids : clients[c].nclose = 1

\* The step is a call of terminateProcess(n).
TerminateCallStep(n) ==
    /\ ev'.name = n
    /\ \E r \in BagToSet(tasks') :
          r.op = "terminate" /\ CopiesIn(r, tasks') > CopiesIn(r, tasks)

\* The last call that returned was terminateProcess(n), with its kill
\* delivered or the name not registered; no call is in flight or overlapped.
SecondTerminate(n) ==
    /\ ~overlap /\ tasks = EmptyBag
    /\ quiet.op = "terminate" /\ quiet.name = n

\* C18: terminateProcess never raises and always resolves, whether the name
\* is registered or not, whether the process exits promptly, late or never,
\* and whether kill throws; a call that follows a returned call of the same
\* name (no call in between or overlapping), and any call whose kill
\* throws, changes neither the live set, the cache, a process nor a
\* transport.
C18_TerminateIdempotent ==
    /\ [](ev.act = "terminate" => ev.out = "ok")
    /\ TerminateInFlight ~> (ev.act = "terminate" /\ ev.out = "ok")
    /\ [][ \A n \in Names :
              /\ TerminateCallStep(n)
              /\ \/ SecondTerminate(n)
                 \/ ev'.act = "term_threw"
              => UNCHANGED <<procs, runningServers, connectedClients,
                             clients>> ]_vars

\* The second of two terminateProcess calls in a row has returned, and the
\* process the first one signalled is still running.
C18_Witness ==
    /\ ~overlap /\ ev.act = "terminate" /\ ev.out = "ok"
    /\ ev.prev.op = "terminate" /\ ev.prev.name = ev.name
    /\ \E p \in Pids : procs[p].st = "running" /\ procs[p].killed

\* C15: no getClient returns a session whose process has exited, and when a
\* getClient returns (no other call overlapping it) the cache holds no
\* session of an exited process under the name: it was evicted.
C15_NoSessionOutlivesProcess ==
    /\ ev.act = "getClient" /\ ev.out = "ok" => BoundToRunning(ev.cid)
    /\ ~overlap /\ ev.act = "getClient" /\ connectedClients[ev.name] # 0
         => BoundToRunning(connectedClients[ev.name])

\* A getClient that found the session of an exited process in the cache
\* (the health check could not even be sent) has evicted it.
C15_Witness ==
    /\ ~overlap /\ ev.act = "getClient" /\ ev.hc = "fail" /\ ev.out = "error"
    /\ ev.prev.op = "getClient" /\ ev.prev.cid # 0
    /\ connectedClients[ev.name] = 0
    /\ runningServers[ev.name] # 0
    /\ procs[runningServers[ev.name]].st = "exited"

C17_SessionOfRegisteredProcess ==
    ~overlap /\ ev.act = "getClient" /\ ev.out = "ok" =>
        /\ runningServers[ev.name] # 0
        /\ clients[ev.cid].proc = runningServers[ev.name]

\* C21: start() on a transport whose process has terminated, killed by the
\* harness or exited on its own, rejects and leaves the transport
\* disconnected with no exit listener installed.
C21_StartFailsOnDeadProcess ==
    ev.act = "t_start" /\ (procs[1].st = "exited" \/ procs[1].killed) =>
        /\ ev.out = "rejected"
        /\ ~clients[1].isConnected
        /\ ~clients[1].exitSub

\* results holds, in order, a result for each of the first tools listed.
InListOrder(results, tools) ==
    /\ Len(results) <= Len(tools)
    /\ \A i \in DOMAIN results : results[i].tool = tools[i]

\* C23: runTests runs its test cases one after another in the order of the
\* tool list: while the tool call of a test case is in progress, every tool
\* listed before its tool has its result and no later one has; and in the
\* summary results[i] is the result for the i-th tool listed.
C23_TestsInListOrder ==
    /\ \A r \in TaskOf : r.op = "runTests" /\ r.phase = "test" =>
          /\ InListOrder(r.results, r.tools)
          /\ IF r.pc = "next_test" THEN r.cur = "none"
             ELSE /\ Len(r.results) < Len(r.tools)
                  /\ r.cur = r.tools[Len(r.results) + 1]
    /\ ev.act = "runTests" /\ ev.ret = "summary" =>
          /\ Len(ev.results) = Len(ev.tools)
          /\ InListOrder(ev.results, ev.tools)

\* runTests returned the results of two different tools, the first failed
\* and the second passed.
C23_Witness ==
    /\ ev.act = "runTests" /\ ev.ret = "summary"
    /\ ev.tools = <<"t1", "t2">>
    /\ ev.results = <<[tool |-> "t1", passed |-> FALSE],
                      [tool |-> "t2", passed |-> TRUE]>>

\* C24: one getClient call makes at most one health check and at most one
\* createNewClient attempt: it returns the cached client after a health
\* check that succeeded and without building, and in every other case,
\* a failed health check included, it builds exactly once.
C24_OneCheckOneRebuild ==
    /\ \A r \in TaskOf : r.nhc <= 1 /\ r.nbuild <= 1
    /\ ev.nhc <= 1 /\ ev.nbuild <= 1
    /\ ev.act = "getClient" =>
          /\ ev.hc = "ok" <=> ev.nbuild = 0
          /\ ev.hc = "ok" => ev.nhc = 1
          /\ ev.nhc = 1 /\ ev.hc # "ok" => ev.nbuild = 1

\* A getClient whose health check failed and whose one rebuild attempt
\* failed as well (client.connect rejected) has returned the failure.
C24_Witness ==
    /\ ev.act = "getClient" /\ ev.out = "error"
    /\ ev.nhc = 1 /\ ev.nbuild = 1
    /\ ev.cid # 0
    /\ ~clients[ev.cid].isConnected

\* C26: the health check never raises: it resolves true only when listTools
\* was answered before the timeout, and false on the timeout and on every
\* failure of listTools, which getClient takes as the signal to rebuild.
C26_HealthCheckNeverRaises ==
    ev.vc.race # "none" =>
        /\ ~ev.vc.raises
        /\ ev.vc.healthy <=> ev.vc.race = "listed"
        /\ IF ev.vc.healthy
           THEN ev.act = "getClient" /\ ev.out = "ok" /\ ev.hc = "ok"
           ELSE ev.act \in {"getClient", "connecting"} /\ ev.hc = "fail"

\* The timeout of a health check fired and getClient went on to rebuild.
C26_Witness ==
    /\ ev.vc.race = "timeout"
    /\ ~ev.vc.healthy
    /\ ev.act = "connecting"
    /\ ev.hc = "fail"

\* terminateProcess (called on its own or by deployServer) has signalled
\* the process r.pid and waits for the exit, the escalation timer or the
\* settle delay.
TerminationWaiting(r) ==
    /\ r.op \in {"terminate", "deploy"}
    /\ r.pc \in {"term_wait", "term_stale", "settle"}
    /\ r.pid # 0

\* The step begins a getClient(n) call: it returns at once or suspends.
GetClientCallStep(n) ==
    /\ ev'.name = n
    /\ \/ ev'.act = "getClient" /\ tasks' = tasks
       \/ /\ ev'.act \in {"health", "connecting"}
          /\ BagCardinality(tasks') = BagCardinality(tasks) + 1

ProcsOf(m) == {p \in Pids : procs[p].st # "unborn" /\ procs[p].name = m}

ClientsOf(m) == {c \in Cids : clients[c].proc \in ProcsOf(m)}

\* C28: a step of deployServer, stopServer, terminateProcess or getClient
\* on one name (the removeClientFromCache calls they make included), and
\* the exit of a process of that name, leave the live-set entry, the cache
\* entry, the processes and the clients of every other name as they were.
C28_OtherNamesUntouched ==
    [][ ev'.act # "clear" =>
          \A m \in Names \ {ev'.name} :
             /\ runningServers'[m] = runningServers[m]
             /\ connectedClients'[m] = connectedClients[m]
             /\ \A p \in ProcsOf(m) : procs'[p] = procs[p]
             /\ \A c \in ClientsOf(m) : clients'[c] = clients[c] ]_vars

\* stopServer("a") has returned while "b" is deployed with a cached,
\* connected session on its running, unsignalled process.
C28_Witness ==
    /\ ev.act = "stop" /\ ev.name = "a" /\ ev.pid # 0 /\ ev.cid # 0
    /\ runningServers["b"] # 0
    /\ procs[runningServers["b"]].st = "running"
    /\ ~procs[runningServers["b"]].killed
    /\ connectedClients["b"] # 0
    /\ clients[connectedClients["b"]].isConnected
    /\ clients[connectedClients["b"]].proc = runningServers["b"]

\* C29: the exit of a process removes from the live set only the entry
\* that belongs to that process; when the name is registered to another
\* (newer) process, the exit leaves the entry as it was.
C29_ExitRemovesOwnEntryOnly ==
    ev.act = "exit" /\ ev.old # ev.pid => runningServers[ev.name] = ev.old

\* A deployServer, stopServer or terminateProcess call is in progress.
SupervisorBusy == \E r \in TaskOf : r.op \in {"deploy", "stop", "terminate"}

\* C31: whenever no deployServer, stopServer or terminateProcess call is in
\* progress, every child process that is still running is the one the live
\* set holds under its name.
C31_NoUntrackedProcess ==
    ~SupervisorBusy =>
        \A p \in Pids : procs[p].st = "running" =>
                           runningServers[procs[p].name] = p

\* C32: clearClientCache() leaves every server that was registered,
\* running and unsignalled as it was, and the getClient called next for a
\* server that is registered and running builds a fresh session: its
\* transport starts and the call goes on to connect.
C32_ClearSparesServers ==
    /\ [][ ev'.act = "clear" =>
             \A n \in Names :
                LET p == runningServers[n]
                IN p # 0 /\ procs[p].st = "running" /\ ~procs[p].killed =>
                      /\ runningServers'[n] = p
                      /\ procs'[p].st = "running"
                      /\ ~procs'[p].killed ]_vars
    /\ [][ \A n \in Names :
             /\ quiet.op = "clear" /\ tasks = EmptyBag
             /\ runningServers[n] # 0
             /\ procs[runningServers[n]].st = "running"
             /\ GetClientCallStep(n)
             => /\ ev'.act = "connecting"
                /\ clients'[ev'.cid].proc = runningServers[n]
                /\ clients'[ev'.cid].isConnected ]_vars

\* C33: once the calls that overlapped have all completed, the cache
\* holds no open session bound to a process that is not the one registered
\* under the name; a getClient suspended in connect while stopServer or a
\* redeploy ran has left none behind.
C33_NoStaleCacheEntry ==
    tasks = EmptyBag =>
        \A n \in Names :
           LET c == connectedClients[n]
           IN c # 0 /\ clients[c].isConnected =>
                 clients[c].proc = runningServers[n]

\* Transport 1 has closed: close() has returned or its exit handler has
\* fired onclose.
TransportClosed == tx.closeCalls > 0 \/ tx.exitFired

\* C34: once the transport has closed, a chunk the process writes leads to
\* no notification, neither onmessage nor the onerror of a failed parse.
C34_SilentAfterClose ==
    [][ TransportClosed /\ ev'.act = "data" => notified' = notified ]_vars

\* C35: a deployServer call that fails leaves the live set, the session
\* cache and the processes as they were before it: the call that fails
\* without suspending changes nothing in its step, and the call that fails
\* after it has waited for a termination (no other call overlapping) finds
\* the process it met still registered, running and unsignalled.
C35_FailedDeployChangesNothing ==
    /\ [][ ev'.act = "deploy" /\ ev'.out = "error" /\ tasks' = tasks =>
             /\ runningServers' = runningServers
             /\ connectedClients' = connectedClients
             /\ procs' = procs
             /\ clients' = clients ]_vars
    /\ [](~overlap /\ ev.act = "deploy" /\ ev.out = "error" /\ ev.old # 0 =>
             /\ runningServers[ev.name] = ev.old
             /\ procs[ev.old].st = "running"
             /\ ~procs[ev.old].killed)

\* C36: no entry that listServers reports as running belongs to a process
\* that has exited.
C36_ListedRunningNotExited ==
    \A e \in listServers(Store) :
       e.status = "running" => procs[e.pid].st # "exited"

\* C37: a process is signalled in a step only by close() of a transport
\* that was constructed with it, or by the supervisor call that found it
\* registered (terminateProcess, stopServer); evicting a stale session
\* signals no newer process registered under the name.
C37_CloseSignalsBoundOnly ==
    [][ \A p \in Pids :
          ~procs[p].killed /\ procs'[p].killed =>
             \/ \E c \in Cids : /\ clients[c].proc = p
                                /\ clients[c].attached
                                /\ clients'[c].nclose = clients[c].nclose + 1
             \/ /\ ev'.act = "sigterm" /\ ev'.pid = p
                /\ runningServers[ev'.name] = p ]_vars

\* getClient has evicted and closed a session whose transport was
\* constructed with an earlier process while a newer one is registered
\* under the name; the newer one runs on unsignalled.
C37_Witness ==
    /\ ev.act \in {"connecting", "getClient"}
    /\ ev.evict # 0
    /\ runningServers[ev.name] # 0
    /\ runningServers[ev.name] # ev.evict
    /\ procs[runningServers[ev.name]].st = "running"
    /\ ~procs[runningServers[ev.name]].killed
    /\ procs[ev.evict].st = "running"

\* The clients the session cache holds.
Cached == {connectedClients[n] : n \in Names} \ {0}

\* The clients whose connect a getClient call is still awaiting.
Connecting == {r.cid : r \in {t \in BagToSet(tasks) : t.pc = "connect"}}

\* C30: however getClient calls overlap, at most one started transport is
\* attached to a process, and every client whose connect has completed and
\* whose transport is still open is the one the cache holds: none is left
\* out of the cache with its transport unclosed.
C30_OneSessionPerProcess ==
    /\ \A p \in Pids : Cardinality(ConnectedTo(p)) <= 1
    /\ \A c \in Cids \ Connecting : clients[c].isConnected => c \in Cached

\* C22 as stated: when clearClientCache returns the session cache is empty
\* and close() was invoked on the transport of every session that was
\* cached (every close() fires onclose once more).
C22_ClearClosesEvery ==
    [][ ev'.act = "clear" =>
          /\ \A n \in Names : connectedClients'[n] = 0
          /\ \A c \in Cached : clients'[c].nclose = clients[c].nclose + 1 ]_vars

\* C22, amended: when clearClientCache returns the session cache is empty
\* and the transport of every session that was cached is closed: close()
\* was invoked on it if its client still held it; one that had fired
\* onclose before (its process exited) is dropped without another close().
C22_ClearClosesHeld ==
    [][ ev'.act = "clear" =>
          /\ \A n \in Names : connectedClients'[n] = 0
          /\ \A c \in Cached :
                /\ ~clients'[c].isConnected
                /\ ~clients'[c].attached
                /\ clients'[c].nclose >= 1
                /\ clients'[c].nclose =
                      clients[c].nclose + (IF clients[c].attached THEN 1 ELSE 0)
          /\ \A c \in Cids \ Cached : clients'[c] = Dropped(clients[c]) ]_vars

\* clearClientCache returned after it found two sessions in the cache: one
\* held its transport, which was closed, the other had lost it to the exit
\* of its process.
C22_Witness ==
    /\ ev.act = "clear"
    /\ Cardinality(ev.cached) = 2
    /\ Cardinality(ev.closed) = 1
    /\ \A n \in Names : connectedClients[n] = 0
    /\ \A c \in ev.cached : ~clients[c].isConnected /\ clients[c].nclose = 1

\* A close trigger of transport 1 has occurred: close(), the exit event
\* reaching its handler, or the error event.
Triggered == tx.closeCalls > 0 \/ tx.exitFired \/ tx.errEvents > 0

\* C6: over the lifetime of a started ProcessTransport onclose fires exactly
\* once, whatever the order and combination of close(), exit and error.
C6_OnCloseExactlyOnce ==
    tx.started /\ Triggered => clients[1].nclose = 1

\* C7: close() is idempotent: after one or more calls the transport is
\* disconnected, the exit subscription is removed and onclose was fired
\* exactly once in total.
C7_CloseIdempotent ==
    tx.closeCalls >= 1 /\ ~tx.exitFired =>
        /\ ~clients[1].isConnected
        /\ ~clients[1].exitSub
        /\ clients[1].nclose = 1

\* C20: a send() on a transport that is not connected, or whose process has
\* its stdin closed, writes nothing, rejects, and calls onerror once.
C20_RefusedSend ==
    [][ /\ tx'.sends = tx.sends + 1
        /\ ~clients[1].isConnected \/ procs[1].st # "running"
        => /\ tx'.written = tx.written
           /\ tx'.nerror = tx.nerror + 1
           /\ ev'.act = "t_send" /\ ev'.out = "rejected" ]_vars

\* The first send() came before any start(): it was refused.
C20_Witness ==
    /\ ev.act = "t_send" /\ ev.out = "rejected"
    /\ tx.startCalls = 0 /\ tx.sends = 1
    /\ tx.written = 0 /\ tx.nerror = 1

\* The positions of the line feeds of a text.
LineEnds(text) == {i \in 1..Len(text) : text[i] = "LF"}

\* The largest element of a set of naturals, 0 for the empty set.
MaxOf(S) == IF S = {} THEN 0 ELSE CHOOSE x \in S : \A y \in S : y <= x

\* What one complete line is to produce: nothing when it is empty or white
\* space, its message when it parses, one error when it does not.
NoteOf(line) ==
    IF Trim(line) = << >> THEN << >>
    ELSE IF IsJson(line)
    THEN <<[kind |-> "message", value |-> JsonParse(line)]>>
    ELSE <<[kind |-> "error", value |-> << >>]>>

\* The notifications of the complete lines of a text that end at the
\* positions `ends`, in the order of the lines.
RECURSIVE ExpectedNotes(_, _)
ExpectedNotes(text, ends) ==
    IF ends = {} THEN << >>
    ELSE LET e == CHOOSE x \in ends : \A y \in ends : x <= y
             b == MaxOf({x \in LineEnds(text) : x < e})
         IN NoteOf(SubSeq(text, b + 1, e - 1))
               \o ExpectedNotes(text, ends \ {e})

\* C27: of the text a chunk completes (the buffer and the chunk), every
\* complete line, in order, gives its message if it parses, exactly one
\* onerror if it does not, and nothing if it is empty or white space; a
\* line that fails does not keep the lines after it from being delivered;
\* what follows the last line feed stays in the buffer; the connected flag
\* and the listeners of the transport do not change.
C27_BadLineDiscarded ==
    [][ pos' > pos =>
          LET text == messageBuffer \o Decode(SubSeq(bytes, pos + 1, pos'))
          IN /\ notified' = notified \o ExpectedNotes(text, LineEnds(text))
             /\ messageBuffer' =
                    SubSeq(text, MaxOf(LineEnds(text)) + 1, Len(text))
             /\ clients' = clients
             /\ clients'[1].isConnected ]_vars

\* A line that does not parse was followed by one that does: the error was
\* reported once, the message delivered after it, the transport is connected.
C27_Witness ==
    /\ pos = Len(bytes)
    /\ bytes = <<"quote", "LF", "quote", "quote", "LF">>
    /\ notified = <<[kind |-> "error", value |-> << >>],
                    [kind |-> "message", value |-> << >>]>>
    /\ messageBuffer = << >>
    /\ clients[1].isConnected

Messages(notes) == SelectSeq(notes, LAMBDA x : x.kind = "message")

\* C8: however the byte stream is split into chunks, handleData delivers
\* the same ordered sequence of parsed messages (that of the stream
\* arriving as one chunk), and a fragment without a newline is never
\* dispatched: it stays in the buffer.
C8_ChunkingInvariant ==
    /\ \A i \in 1..Len(messageBuffer) : messageBuffer[i] # "LF"
    /\ pos = Len(bytes) =>
         Messages(notified) = Messages(handleData(<< >>, Decode(bytes)).notified)
====
